---- MODULE Spec2Model ----
(***************************************************************************)
(* Inventory backend (src/main.py) and voice-agent cart (src/tool.py)      *)
(* over one relational store.                                              *)
(*                                                                         *)
(* The store is PostgreSQL reached through asyncpg.  Neither file sets an  *)
(* isolation level (conn.transaction() is called without arguments), so    *)
(* every transaction runs READ COMMITTED: each statement reads the rows    *)
(* committed when it starts plus the transaction's own writes, an UPDATE   *)
(* takes the row's lock until the transaction ends, and a statement        *)
(* outside a transaction commits by itself.  One step of the model is one  *)
(* SQL statement; the Python around it belongs to the step of the          *)
(* statement before it.  Text is a sequence of one-character strings,      *)
(* money is an integer number of cents.                                    *)
(***************************************************************************)
EXTENDS Integers, Sequences, FiniteSets, TLC

(* ------------------------------ bounds -------------------------------- *)

NumClients == 2          \* concurrent HTTP requests
NumSessions == 2         \* concurrent voice sessions, one cart each
MaxOps == 2              \* requests and tool calls issued in one behaviour
MaxCartOps == 3          \* the same, where carts and checkouts are studied
MaxItems == 3            \* highest id the store's sequence hands out
MaxQty == 3              \* largest quantity a request names or a row holds
MaxCart == 2             \* lines a cart may hold

Clients == 1..NumClients
Sessions == 1..NumSessions
Procs == {<<"http", c>> : c \in Clients} \cup {<<"voice", s>> : s \in Sessions}

(* ------------------------------- text --------------------------------- *)

Upper == <<"A","B","C","D","E","F","G","H","I","J","K","L","M",
           "N","O","P","Q","R","S","T","U","V","W","X","Y","Z">>
Lowercase == <<"a","b","c","d","e","f","g","h","i","j","k","l","m",
               "n","o","p","q","r","s","t","u","v","w","x","y","z">>

ToLower == [i \in DOMAIN Upper |-> Lowercase[i]]
UpperSet == {Upper[i] : i \in DOMAIN Upper}
IndexOf == [ch \in UpperSet |-> CHOOSE i \in DOMAIN Upper : Upper[i] = ch]

LowerChar(ch) == IF ch \in UpperSet THEN ToLower[IndexOf[ch]] ELSE ch

\* str.lower() and SQL LOWER()
Lower(s) == [i \in 1..Len(s) |-> LowerChar(s[i])]

IsSpace(ch) == ch \in {" ", "\t", "\n"}

RECURSIVE LStrip(_)
LStrip(s) == IF s # <<>> /\ IsSpace(Head(s)) THEN LStrip(Tail(s)) ELSE s

RECURSIVE RStrip(_)
RStrip(s) ==
    IF s # <<>> /\ IsSpace(s[Len(s)]) THEN RStrip(SubSeq(s, 1, Len(s) - 1)) ELSE s

\* str.strip() and SQL TRIM()
Strip(s) == RStrip(LStrip(s))

ITEM_MAPPINGS ==
       (<<"c","o","l","a">> :> <<"C","o","k","e">>)
    @@ (<<"s","o","d","a">> :> <<"C","o","k","e">>)
    @@ (<<"c","o","k","e">> :> <<"C","o","k","e">>)
    @@ (<<"c","o","c","a"," ","c","o","l","a">> :> <<"C","o","k","e">>)
    @@ (<<"c","o","c","a","-","c","o","l","a">> :> <<"C","o","k","e">>)
    @@ (<<"c","h","i","p","s">> :> <<"L","a","y","s">>)
    @@ (<<"p","o","t","a","t","o"," ","c","h","i","p","s">> :> <<"L","a","y","s">>)
    @@ (<<"l","a","y","s">> :> <<"L","a","y","s">>)
    @@ (<<"b","i","s","c","u","i","t">> :> <<"B","i","s","c","k","e","t","s">>)
    @@ (<<"c","o","o","k","i","e","s">> :> <<"B","i","s","c","k","e","t","s">>)
    @@ (<<"b","i","s","c","u","i","t","s">> :> <<"B","i","s","c","k","e","t","s">>)
    @@ (<<"b","i","s","c","k","e","t","s">> :> <<"B","i","s","c","k","e","t","s">>)

VARIANT_MAPPINGS ==
       (<<"r","e","g","u","l","a","r">> :> <<"R","e","g","u","l","a","r">>)
    @@ (<<"n","o","r","m","a","l">> :> <<"R","e","g","u","l","a","r">>)
    @@ (<<"s","m","a","l","l">> :> <<"R","e","g","u","l","a","r">>)
    @@ (<<"h","a","l","f"," ","l","i","t","e","r">> :> <<"H","a","l","f"," ","L","i","t","e","r">>)
    @@ (<<"h","a","l","f"," ","l","i","t","r","e">> :> <<"H","a","l","f"," ","L","i","t","e","r">>)
    @@ (<<"5","0","0","m","l">> :> <<"H","a","l","f"," ","L","i","t","e","r">>)
    @@ (<<"m","e","d","i","u","m">> :> <<"H","a","l","f"," ","L","i","t","e","r">>)
    @@ (<<"1",".","5"," ","l","i","t","e","r">> :> <<"1",".","5"," ","L","i","t","e","r">>)
    @@ (<<"1",".","5"," ","l","i","t","r","e">> :> <<"1",".","5"," ","L","i","t","e","r">>)
    @@ (<<"1","5","0","0","m","l">> :> <<"1",".","5"," ","L","i","t","e","r">>)
    @@ (<<"l","a","r","g","e">> :> <<"1",".","5"," ","L","i","t","e","r">>)
    @@ (<<"b","i","g">> :> <<"1",".","5"," ","L","i","t","e","r">>)

\* dict.get(key, default)
DictGet(d, key, default) == IF key \in DOMAIN d THEN d[key] ELSE default

\* a lookup that hands back the trimmed input when the key is missing
_map_item_name_Stripped(item_name) ==
    DictGet(ITEM_MAPPINGS, Strip(Lower(item_name)), Strip(item_name))

_map_item_name(item_name) == DictGet(ITEM_MAPPINGS, Strip(Lower(item_name)), item_name)

_map_variant_name(variant_name) ==
    DictGet(VARIANT_MAPPINGS, Strip(Lower(variant_name)), variant_name)

CATEGORY_MAPPINGS ==
       (<<"d","r","i","n","k">> :> <<"D","r","i","n","k","s">>)
    @@ (<<"d","r","i","n","k","s">> :> <<"D","r","i","n","k","s">>)
    @@ (<<"b","e","v","e","r","a","g","e">> :> <<"D","r","i","n","k","s">>)
    @@ (<<"b","e","v","e","r","a","g","e","s">> :> <<"D","r","i","n","k","s">>)
    @@ (<<"s","n","a","c","k">> :> <<"S","n","a","c","k","s">>)
    @@ (<<"s","n","a","c","k","s">> :> <<"S","n","a","c","k","s">>)
    @@ (<<"c","h","i","p","s">> :> <<"S","n","a","c","k","s">>)
    @@ (<<"b","i","s","c","u","i","t">> :> <<"B","i","s","c","u","i","t","s">>)
    @@ (<<"b","i","s","c","u","i","t","s">> :> <<"B","i","s","c","u","i","t","s">>)
    @@ (<<"c","o","o","k","i","e">> :> <<"B","i","s","c","u","i","t","s">>)
    @@ (<<"c","o","o","k","i","e","s">> :> <<"B","i","s","c","u","i","t","s">>)

_map_category_name(category_name) ==
    DictGet(CATEGORY_MAPPINGS, Strip(Lower(category_name)), category_name)

Default == <<"D","e","f","a","u","l","t">>

\* the names and units the requests of the model use
Coke == <<"C","o","k","e">>
Lays == <<"L","a","y","s">>
coke == <<"c","o","k","e">>
Fanta == <<"F","a","n","t","a">>
cola == <<"c","o","l","a">>
tea == <<"t","e","a">>
Regular == <<"R","e","g","u","l","a","r">>
small == <<"s","m","a","l","l">>
big == <<"b","i","g">>
can == <<"c","a","n">>
pack == <<"p","a","c","k">>
box == <<"b","o","x">>
Drinks == <<"D","r","i","n","k","s">>
Snacks == <<"S","n","a","c","k","s">>
drinks == <<"d","r","i","n","k","s">>

(* ------------------------------ values -------------------------------- *)

\* an optional value: None is the empty sequence, a value v is <<v>>
None == <<>>
Some(v) == <<v>>
IsNone(o) == o = <<>>
Get(o) == o[1]


\* f with the key k removed
Without(f, k) == [x \in DOMAIN f \ {k} |-> f[x]]

VARIABLES
    stock_items,     \* table stock_items: id -> row
    item_variants,   \* table item_variants: id -> row
    next_id,         \* the sequence behind stock_items.id
    tx,              \* per connection: the open transaction's uncommitted writes
    http,            \* per HTTP client: the request in progress or its response
    cart,            \* per voice session: InventoryAssistant.cart
    tool,            \* per voice session: the tool call in progress or its result
    budget,          \* requests and tool calls still to be issued
    expected,        \* history: per row, the quantity its acknowledged operations add up to
    touched,         \* history: per row, the kinds of operation that wrote it
    snap,            \* history: per process, the store when its operation began
    charged,         \* history: per session, for every line it put in a cart, the
                     \* line's quantity and the units committed checkouts took for it
    mapped,          \* one call of a _map_*_name function: its argument and result
    current_session, \* ChatLogger.current_session
    current_log_file,\* ChatLogger.current_log_file
    chat_logs,       \* the files of log_dir: name -> the lines written, in order
    now,             \* the clock, in seconds
    last_event       \* history: the last call on the logger and the log before it

\* what the handlers and the tools never touch
apart == <<mapped, current_session, current_log_file, chat_logs, now, last_event>>

vars == <<stock_items, item_variants, next_id, tx, http, cart, tool, budget,
          expected, touched, snap, charged, apart>>

(* ------------------------------ the store ------------------------------ *)

StockKey(id) == <<"stock_items", id>>
VariantKey(id) == <<"item_variants", id>>

\* a statement either runs or raises (lost connection, failed transaction)
StoreOutcomes == {"ok", "error"}

NoWrites == <<>>

\* another connection's open transaction has updated the row and not ended
LockedByOther(p, key) == \E o \in Procs \ {p} : key \in DOMAIN tx[o]

\* SELECT quantity FROM stock_items WHERE id = $1, as connection p sees it
ReadStockQty(p, id) ==
    IF id \notin DOMAIN stock_items THEN None
    ELSE IF StockKey(id) \in DOMAIN tx[p] THEN Some(tx[p][StockKey(id)])
    ELSE Some(stock_items[id].quantity)

\* SELECT quantity FROM item_variants WHERE id = $1, as connection p sees it
ReadVariantQty(p, id) ==
    IF id \notin DOMAIN item_variants THEN None
    ELSE IF VariantKey(id) \in DOMAIN tx[p] THEN Some(tx[p][VariantKey(id)])
    ELSE Some(item_variants[id].quantity)

\* the tables once the writes w of a transaction are committed
CommitStock(w) ==
    [id \in DOMAIN stock_items |->
        IF StockKey(id) \in DOMAIN w
        THEN [stock_items[id] EXCEPT !.quantity = w[StockKey(id)]]
        ELSE stock_items[id]]

CommitVariants(w) ==
    [id \in DOMAIN item_variants |->
        IF VariantKey(id) \in DOMAIN w
        THEN [item_variants[id] EXCEPT !.quantity = w[VariantKey(id)]]
        ELSE item_variants[id]]

\* SELECT id FROM stock_items WHERE LOWER(item_name) = LOWER($1)
IdsByNameCI(name) ==
    {id \in DOMAIN stock_items : Lower(stock_items[id].item_name) = Lower(name)}

VariantsOf(id) == {v \in DOMAIN item_variants : item_variants[v].stock_item_id = id}

(* ------------------------------ history -------------------------------- *)

Snapshot == Some([stock_items |-> stock_items, item_variants |-> item_variants])

\* p has committed a write: every other operation has had a concurrent mutation
Disturb(p) == [o \in Procs |-> IF o = p THEN snap[p] ELSE None]

\* p begins an operation
Begin(p) == [snap EXCEPT ![p] = Snapshot]

\* p begins an operation whose first statement commits a write
BeginDisturb(p) == [o \in Procs |-> IF o = p THEN Snapshot ELSE None]

Touch(keys, kind) ==
    [k \in DOMAIN touched |-> IF k \in keys THEN touched[k] \cup {kind} ELSE touched[k]]

(* --------------------------- src/main.py ------------------------------- *)

H(c) == <<"http", c>>

Idle ==
    [pc |-> "idle", op |-> "", item_id |-> 0, quantity |-> None, item_name |-> None,
     unit |-> None, cur |-> None, status |-> 0, row |-> None, remaining |-> None,
     conn |-> FALSE]

Free(c) == http[c].pc \in {"idle", "done"}

\* a request arrives and is served by the first free handler
CanStart(c) == Free(c) /\ budget > 0 /\ \A o \in Clients : o < c => ~Free(o)

\* the request, and the connection its handler opens first
Request(op, id, quantity, item_name, unit) ==
    [Idle EXCEPT !.op = op, !.item_id = id, !.quantity = quantity,
                 !.item_name = item_name, !.unit = unit, !.conn = TRUE]

\* the handler returns or raises HTTPException(status), and its finally
\* clause closes the connection
Respond(r, status, row, remaining) ==
    [r EXCEPT !.pc = "done", !.cur = None, !.status = status, !.row = row,
              !.remaining = remaining, !.conn = FALSE]

\* health_check: the connection, SELECT 1, and the close that follows it
health_check(c) ==
    /\ CanStart(c)
    /\ budget' = budget - 1
    /\ \E connected \in StoreOutcomes, out \in StoreOutcomes :
        LET r == Request("health_check", 0, None, None, None) IN
        http' = [http EXCEPT ![c] =
            IF connected = "error" THEN [r EXCEPT !.pc = "done", !.status = 503, !.conn = FALSE]
            ELSE IF out = "error" THEN [r EXCEPT !.pc = "done", !.status = 503]
            ELSE [r EXCEPT !.pc = "done", !.status = 200, !.conn = FALSE]]
    /\ snap' = Begin(H(c))
    /\ UNCHANGED <<apart, charged, stock_items, item_variants, next_id, tx, cart, tool,
                   expected, touched>>

StockItem(id, row) ==
    [id |-> id, item_name |-> row.item_name, quantity |-> row.quantity, unit |-> row.unit]

\* GET /stocks/{item_id}: the response to a request made now
get_stock_by_id(id) ==
    IF id \notin DOMAIN stock_items THEN [status |-> 404, row |-> None]
    ELSE [status |-> 200, row |-> Some(StockItem(id, stock_items[id]))]

\* creates that have passed the name check and not inserted yet
PendingInserts == Cardinality({c \in Clients : http[c].pc = "insert"})

\* POST /stocks: the name check
add_stock_check(c, name, quantity, unit) ==
    /\ CanStart(c)
    /\ next_id + PendingInserts <= MaxItems
    /\ budget' = budget - 1
    /\ \E out \in StoreOutcomes :
        LET r == Request("add_stock", 0, Some(quantity), Some(name), Some(unit)) IN
        http' = [http EXCEPT ![c] =
            IF out = "error" THEN Respond(r, 500, None, None)
            ELSE IF IdsByNameCI(name) # {} THEN Respond(r, 400, None, None)
            ELSE [r EXCEPT !.pc = "insert"]]
    /\ snap' = Begin(H(c))
    /\ UNCHANGED <<apart, charged, stock_items, item_variants, next_id, tx, cart, tool, expected, touched>>

\* the row INSERT INTO stock_items (item_name, quantity, unit) stores
NewRow(r) ==
    [item_name |-> Get(r.item_name), quantity |-> Get(r.quantity), unit |-> Get(r.unit),
     price |-> None]

\* POST /stocks: the INSERT
add_stock_insert(c) ==
    /\ http[c].pc = "insert"
    /\ \E out \in StoreOutcomes :
        IF out = "error"
        THEN /\ http' = [http EXCEPT ![c] = Respond(@, 500, None, None)]
             /\ UNCHANGED <<stock_items, next_id, expected, touched, snap>>
        ELSE LET row == NewRow(http[c]) IN
             /\ stock_items' = (next_id :> row) @@ stock_items
             /\ next_id' = next_id + 1
             /\ http' = [http EXCEPT ![c] =
                    Respond(@, 201, Some(StockItem(next_id, row)), None)]
             /\ expected' = (StockKey(next_id) :> row.quantity) @@ expected
             /\ touched' = (StockKey(next_id) :> {}) @@ touched
             /\ snap' = Disturb(H(c))
    /\ UNCHANGED <<apart, charged, item_variants, tx, cart, tool, budget>>

\* PUT /stocks/{item_id}: the existence check and the field list
update_stock_check(c, id, name, quantity, unit) ==
    /\ CanStart(c)
    /\ budget' = budget - 1
    /\ \E out \in StoreOutcomes :
        LET r == Request("update_stock", id, quantity, name, unit) IN
        http' = [http EXCEPT ![c] =
            IF out = "error" THEN Respond(r, 500, None, None)
            ELSE IF id \notin DOMAIN stock_items THEN Respond(r, 404, None, None)
            ELSE IF IsNone(name) /\ IsNone(quantity) /\ IsNone(unit)
                 THEN Respond(r, 400, None, None)
            ELSE [r EXCEPT !.pc = "write"]]
    /\ snap' = Begin(H(c))
    /\ UNCHANGED <<apart, charged, stock_items, item_variants, next_id, tx, cart, tool, expected, touched>>

\* mutant: a quantity that is not supplied is written as 0
UpdatedRow_QuantityReset(row, r) ==
    [row EXCEPT
        !.item_name = IF IsNone(r.item_name) THEN @ ELSE Get(r.item_name),
        !.quantity = IF IsNone(r.quantity) THEN 0 ELSE Get(r.quantity),
        !.unit = IF IsNone(r.unit) THEN @ ELSE Get(r.unit)]

\* UPDATE stock_items SET <the supplied fields>
UpdatedRow(row, r) ==
    [row EXCEPT
        !.item_name = IF IsNone(r.item_name) THEN @ ELSE Get(r.item_name),
        !.quantity = IF IsNone(r.quantity) THEN @ ELSE Get(r.quantity),
        !.unit = IF IsNone(r.unit) THEN @ ELSE Get(r.unit)]

\* PUT /stocks/{item_id}: the UPDATE
update_stock_write(c) ==
    LET r == http[c]
        id == r.item_id
    IN
    /\ r.pc = "write"
    /\ \E out \in StoreOutcomes :
        IF out = "error" \/ id \notin DOMAIN stock_items
        THEN \* a raised statement, or no row returned and dict(None) raises
             /\ http' = [http EXCEPT ![c] = Respond(@, 500, None, None)]
             /\ UNCHANGED <<stock_items, expected, touched, snap>>
        ELSE LET row == UpdatedRow(stock_items[id], r) IN
             /\ ~LockedByOther(H(c), StockKey(id))
             /\ stock_items' = [stock_items EXCEPT ![id] = row]
             /\ http' = [http EXCEPT ![c] = Respond(@, 200, Some(StockItem(id, row)), None)]
             /\ expected' = [expected EXCEPT ![StockKey(id)] = row.quantity]
             /\ touched' = Touch({StockKey(id)}, "update")
             /\ snap' = Disturb(H(c))
    /\ UNCHANGED <<apart, charged, item_variants, next_id, tx, cart, tool, budget>>

\* POST /stocks/{item_id}/add-quantity
add_quantity_to_stock(c, id, quantity_to_add) ==
    /\ CanStart(c)
    /\ budget' = budget - 1
    /\ \E out \in StoreOutcomes :
        LET r == Request("add_quantity_to_stock", id, Some(quantity_to_add), None, None) IN
        IF out = "error" \/ id \notin DOMAIN stock_items
        THEN /\ http' = [http EXCEPT ![c] =
                    Respond(r, IF out = "error" THEN 500 ELSE 404, None, None)]
             /\ snap' = Begin(H(c))
             /\ UNCHANGED <<stock_items, expected, touched>>
        ELSE LET row == [stock_items[id] EXCEPT !.quantity = @ + quantity_to_add] IN
             /\ ~LockedByOther(H(c), StockKey(id))
             /\ row.quantity <= MaxQty
             /\ stock_items' = [stock_items EXCEPT ![id] = row]
             /\ http' = [http EXCEPT ![c] = Respond(r, 200, Some(StockItem(id, row)), None)]
             /\ expected' = [expected EXCEPT ![StockKey(id)] = @ + quantity_to_add]
             /\ touched' = Touch({StockKey(id)}, "add_quantity")
             /\ snap' = BeginDisturb(H(c))
    /\ UNCHANGED <<apart, charged, item_variants, next_id, tx, cart, tool>>

\* mutant: the stock check left out
InsufficientStock_Unchecked(current_quantity, quantity) == FALSE

\* current_stock['quantity'] < purchase.quantity
InsufficientStock(current_quantity, quantity) == current_quantity < quantity

\* POST /purchase: the SELECT and the stock check, inside conn.transaction()
purchase_item_select(c, id, quantity) ==
    /\ CanStart(c)
    /\ budget' = budget - 1
    /\ \E out \in StoreOutcomes :
        LET r == Request("purchase_item", id, Some(quantity), None, None) IN
        http' = [http EXCEPT ![c] =
            IF out = "error" THEN Respond(r, 500, None, None)
            ELSE IF id \notin DOMAIN stock_items THEN Respond(r, 404, None, None)
            ELSE IF InsufficientStock(stock_items[id].quantity, quantity)
                 THEN Respond(r, 400, None, None)
            ELSE [r EXCEPT !.pc = "update", !.cur = Some(stock_items[id])]]
    /\ snap' = Begin(H(c))
    /\ UNCHANGED <<apart, charged, stock_items, item_variants, next_id, tx, cart, tool, expected, touched>>

\* mutant: one unit taken whatever the quantity
NewQuantity_ByOne(current_quantity, quantity) == current_quantity - 1

\* new_quantity = current_stock['quantity'] - purchase.quantity
NewQuantity(current_quantity, quantity) == current_quantity - quantity

\* POST /purchase: UPDATE stock_items SET quantity = $1 WHERE id = $2 RETURNING quantity
purchase_item_update(c) ==
    LET r == http[c]
        id == r.item_id
    IN
    /\ r.pc = "update"
    /\ \E out \in StoreOutcomes :
        IF out = "error" \/ id \notin DOMAIN stock_items
        THEN \* a raised statement, or no row: remaining_quantity=None fails validation
             /\ http' = [http EXCEPT ![c] = Respond(@, 500, None, None)]
             /\ UNCHANGED tx
        ELSE LET new_quantity == NewQuantity(Get(r.cur).quantity, Get(r.quantity)) IN
             /\ ~LockedByOther(H(c), StockKey(id))
             /\ tx' = [tx EXCEPT ![H(c)] = (StockKey(id) :> new_quantity) @@ @]
             /\ http' = [http EXCEPT ![c] =
                    [@ EXCEPT !.pc = "commit", !.remaining = Some(new_quantity)]]
    /\ UNCHANGED <<apart, charged, stock_items, item_variants, next_id, cart, tool, budget,
                   expected, touched, snap>>

\* POST /purchase: leaving conn.transaction() with the response built
purchase_item_commit(c) ==
    LET r == http[c]
        key == StockKey(r.item_id)
    IN
    /\ r.pc = "commit"
    /\ tx' = [tx EXCEPT ![H(c)] = NoWrites]
    /\ \E out \in StoreOutcomes :
        IF out = "error"
        THEN /\ http' = [http EXCEPT ![c] = Respond(@, 500, None, None)]
             /\ UNCHANGED <<stock_items, expected, touched, snap>>
        ELSE /\ stock_items' = CommitStock(tx[H(c)])
             /\ http' = [http EXCEPT ![c] = Respond(@, 200, None, r.remaining)]
             /\ expected' = [expected EXCEPT ![key] = @ - Get(r.quantity)]
             /\ touched' = Touch({key}, "purchase")
             /\ snap' = Disturb(H(c))
    /\ UNCHANGED <<apart, charged, item_variants, next_id, cart, tool, budget>>

\* DELETE /stocks/{item_id}; the variants of the item go with it when the
\* schema cascades and stay when it does not
delete_stock(c, id) ==
    /\ CanStart(c)
    /\ budget' = budget - 1
    /\ \E out \in StoreOutcomes, cascade \in BOOLEAN :
        LET r == Request("delete_stock", id, None, None, None)
            gone == IF cascade THEN VariantsOf(id) ELSE {}
            keys == {StockKey(id)} \cup {VariantKey(v) : v \in gone}
        IN
        IF out = "error" \/ id \notin DOMAIN stock_items
        THEN /\ http' = [http EXCEPT ![c] =
                    Respond(r, IF out = "error" THEN 500 ELSE 404, None, None)]
             /\ snap' = Begin(H(c))
             /\ UNCHANGED <<stock_items, item_variants, expected, touched>>
        ELSE /\ \A k \in keys : ~LockedByOther(H(c), k)
             /\ stock_items' = Without(stock_items, id)
             /\ item_variants' = [v \in DOMAIN item_variants \ gone |-> item_variants[v]]
             /\ http' = [http EXCEPT ![c] = Respond(r, 200, None, None)]
             /\ expected' = [k \in DOMAIN expected \ keys |-> expected[k]]
             /\ touched' = [k \in DOMAIN touched \ keys |-> touched[k]]
             /\ snap' = BeginDisturb(H(c))
    /\ UNCHANGED <<apart, charged, next_id, tx, cart, tool>>

(* --------------------------- src/tool.py ------------------------------- *)

V(s) == <<"voice", s>>

NoCall ==
    [pc |-> "idle", call |-> "", item_name |-> None, quantity |-> None, variant |-> None,
     category |-> None, i |-> 0, cur |-> None, pending |-> "", result |-> "", line |-> 0,
     total |-> None, rows |-> {}, cart0 |-> <<>>, conn |-> FALSE]

CanCall(s) == tool[s].pc \in {"idle", "done"} /\ budget > 0

Call(s, name) == [NoCall EXCEPT !.call = name, !.cart0 = cart[s]]

\* the tool returns its string; result names which one.  A tool that
\* opened a connection returns through `finally: await conn.close()`
Return(t, result, line, total) ==
    [t EXCEPT !.pc = "done", !.i = 0, !.cur = None, !.pending = "", !.result = result,
              !.line = line, !.total = total, !.conn = FALSE]

\* mutant: the exception leaves the tool
Caught_Reraised(t) == [t EXCEPT !.pc = "raised"]

\* except Exception as e: log it and return the tool's apology
Caught(t) == Return(t, "error", 0, None)

\* sum(item['total_price'] for item in self.cart)
RECURSIVE SumTotalPrice(_)
SumTotalPrice(lines) ==
    IF lines = <<>> THEN 0 ELSE Head(lines).total_price + SumTotalPrice(Tail(lines))

\* one row of stock_items LEFT JOIN item_variants, with the COALESCEs of find_query
JoinRow(id, v) ==
    IF IsNone(v)
    THEN [stock_item_id |-> id, item_name |-> stock_items[id].item_name,
          variant |-> Default, quantity |-> stock_items[id].quantity,
          unit |-> stock_items[id].unit, price |-> 0, variant_id |-> None]
    ELSE [stock_item_id |-> id, item_name |-> stock_items[id].item_name,
          variant |-> item_variants[Get(v)].variant,
          quantity |-> item_variants[Get(v)].quantity,
          unit |-> item_variants[Get(v)].unit, price |-> item_variants[Get(v)].price,
          variant_id |-> v]

\* WHERE LOWER(TRIM(s.item_name)) = LOWER(TRIM($1))
IdsByName(name) ==
    {id \in DOMAIN stock_items :
        Lower(Strip(stock_items[id].item_name)) = Lower(Strip(name))}

\* the rows of find_query
FindRows(mapped_item, mapped_variant) ==
    {JoinRow(id, None) : id \in {x \in IdsByName(mapped_item) : VariantsOf(x) = {}}}
    \cup
    {JoinRow(item_variants[v].stock_item_id, Some(v)) :
        v \in {x \in DOMAIN item_variants :
                /\ item_variants[x].stock_item_id \in IdsByName(mapped_item)
                /\ Lower(Strip(item_variants[x].variant)) = Lower(Strip(mapped_variant))}}

\* mutant: the comparison the wrong way round
Insufficient_Swapped(available, quantity) == quantity < available

\* item['quantity'] < quantity
Insufficient(available, quantity) == available < quantity

\* mutant: the unit price taken for the line's total
ItemTotal_UnitPrice(price, quantity) == price

\* item_total = float(item['price']) * quantity
ItemTotal(price, quantity) == price * quantity

\* a line as it enters the cart: nothing taken from the store for it yet
NotCharged(cart_item) == [quantity |-> cart_item.quantity, taken |-> 0]

\* the first n of the last m lines of a session charged once more
Charge(lines, m, n) ==
    [k \in DOMAIN lines |->
        IF Len(lines) - m < k /\ k <= Len(lines) - m + n
        THEN [lines[k] EXCEPT !.taken = @ + lines[k].quantity] ELSE lines[k]]

CartItem(item, quantity) ==
    [item_name |-> item.item_name, variant |-> item.variant, quantity |-> quantity,
     unit |-> item.unit, price_per_unit |-> item.price,
     total_price |-> ItemTotal(item.price, quantity),
     variant_id |-> item.variant_id, stock_item_id |-> item.stock_item_id]

\* InventoryAssistant.add_to_cart: find_query, variants_query when nothing is found
add_to_cart(s, item_name, quantity, variant) ==
    LET mapped_item == _map_item_name(item_name)
        mapped_variant ==
            IF variant # <<>> /\ Strip(variant) # <<>>
            THEN _map_variant_name(variant) ELSE Default
        rows == FindRows(mapped_item, mapped_variant)
        t == [Call(s, "add_to_cart") EXCEPT !.item_name = Some(item_name),
                  !.quantity = Some(quantity), !.variant = Some(variant)]
    IN
    /\ CanCall(s)
    /\ Len(cart[s]) < MaxCart
    /\ budget' = budget - 1
    /\ \E out \in StoreOutcomes :
        IF out = "error"
        THEN /\ tool' = [tool EXCEPT ![s] = Caught(t)]
             /\ cart' = cart
        ELSE IF rows = {}
        THEN /\ tool' = [tool EXCEPT ![s] =
                    Return(t, IF IdsByName(mapped_item) # {} THEN "variant_not_found"
                              ELSE "item_not_found", 0, None)]
             /\ cart' = cart
        ELSE \E item \in rows :
            IF Insufficient(item.quantity, quantity)
            THEN /\ tool' = [tool EXCEPT ![s] = Return(t, "insufficient", 0, None)]
                 /\ cart' = cart
            ELSE LET lines == Append(cart[s], CartItem(item, quantity)) IN
                 /\ cart' = [cart EXCEPT ![s] = lines]
                 /\ tool' = [tool EXCEPT ![s] =
                        Return(t, "added", Len(lines), Some(SumTotalPrice(lines)))]
    /\ snap' = Begin(V(s))
    /\ UNCHANGED <<apart, stock_items, item_variants, next_id, tx, http, expected, touched>>
    /\ charged' = [charged EXCEPT ![s] =
                      IF Len(cart'[s]) > Len(cart[s])
                      THEN Append(@, NotCharged(cart'[s][Len(cart'[s])])) ELSE @]

\* InventoryAssistant.show_cart
show_cart(s) ==
    /\ CanCall(s)
    /\ budget' = budget - 1
    /\ tool' = [tool EXCEPT ![s] =
            IF cart[s] = <<>> THEN Return(Call(s, "show_cart"), "empty", 0, None)
            ELSE Return(Call(s, "show_cart"), "cart", 0, Some(SumTotalPrice(cart[s])))]
    /\ snap' = Begin(V(s))
    /\ UNCHANGED <<apart, charged, stock_items, item_variants, next_id, tx, http, cart, expected, touched>>

\* mutant: only the last line is dropped
clear_cart_DropsLast(s) ==
    /\ CanCall(s)
    /\ budget' = budget - 1
    /\ cart' = [cart EXCEPT ![s] = IF @ = <<>> THEN @ ELSE SubSeq(@, 1, Len(@) - 1)]
    /\ tool' = [tool EXCEPT ![s] = Return(Call(s, "clear_cart"), "cleared", 0, None)]
    /\ snap' = Begin(V(s))
    /\ UNCHANGED <<apart, charged, stock_items, item_variants, next_id, tx, http, expected, touched>>

\* InventoryAssistant.clear_cart
clear_cart(s) ==
    /\ CanCall(s)
    /\ budget' = budget - 1
    /\ cart' = [cart EXCEPT ![s] = <<>>]
    /\ tool' = [tool EXCEPT ![s] = Return(Call(s, "clear_cart"), "cleared", 0, None)]
    /\ snap' = Begin(V(s))
    /\ UNCHANGED <<apart, charged, stock_items, item_variants, next_id, tx, http, expected, touched>>

\* the row a cart line is checked against: cart_item.get('variant_id') decides
LineKey(cart_item) ==
    IF ~IsNone(cart_item.variant_id) THEN VariantKey(Get(cart_item.variant_id))
    ELSE StockKey(cart_item.stock_item_id)

\* SELECT quantity FROM item_variants / stock_items WHERE id = $1
ReadLine(p, cart_item) ==
    IF ~IsNone(cart_item.variant_id) THEN ReadVariantQty(p, Get(cart_item.variant_id))
    ELSE ReadStockQty(p, cart_item.stock_item_id)

RowExists(key) ==
    IF key[1] = "stock_items" THEN key[2] \in DOMAIN stock_items
    ELSE key[2] \in DOMAIN item_variants

\* current_stock is None or current_stock < cart_item['quantity']
NotAvailable(current_stock, quantity) ==
    IsNone(current_stock) \/ Get(current_stock) < quantity

\* mutant: the empty cart is not turned away
complete_purchase_begin_NoEmptyCheck(s) ==
    /\ CanCall(s)
    /\ budget' = budget - 1
    /\ \E out \in StoreOutcomes :
        LET t == Call(s, "complete_purchase") IN
        tool' = [tool EXCEPT ![s] =
            IF out = "error" THEN Caught(t)
            ELSE [t EXCEPT !.pc = "select", !.i = 1, !.total = Some(0), !.conn = TRUE]]
    /\ snap' = Begin(V(s))
    /\ UNCHANGED <<apart, charged, stock_items, item_variants, next_id, tx, http, cart, expected, touched>>

\* InventoryAssistant.complete_purchase: the empty-cart check, the connection
\* and the start of the transaction
complete_purchase_begin(s) ==
    /\ CanCall(s)
    /\ budget' = budget - 1
    /\ \E out \in StoreOutcomes :
        LET t == Call(s, "complete_purchase") IN
        tool' = [tool EXCEPT ![s] =
            IF cart[s] = <<>> THEN Return(t, "empty", 0, None)
            ELSE IF out = "error" THEN Caught(t)
            ELSE [t EXCEPT !.pc = "select", !.i = 1, !.total = Some(0), !.conn = TRUE]]
    /\ snap' = Begin(V(s))
    /\ UNCHANGED <<apart, charged, stock_items, item_variants, next_id, tx, http, cart, expected, touched>>

\* complete_purchase: check_query for the line at i, and the availability test
complete_purchase_select(s) ==
    LET t == tool[s]
        cart_item == cart[s][t.i]
        current_stock == ReadLine(V(s), cart_item)
    IN
    /\ t.pc = "select"
    /\ \E out \in StoreOutcomes :
        IF out = "error"
        THEN /\ tool' = [tool EXCEPT ![s] = Caught(t)]
             /\ tx' = [tx EXCEPT ![V(s)] = NoWrites]
        ELSE /\ tool' = [tool EXCEPT ![s] =
                    IF NotAvailable(current_stock, cart_item.quantity)
                    THEN [t EXCEPT !.pc = "commit", !.pending = "short", !.cur = None]
                    ELSE [t EXCEPT !.pc = "update", !.cur = current_stock]]
             /\ tx' = tx
    /\ UNCHANGED <<apart, charged, stock_items, item_variants, next_id, http, cart, budget,
                   expected, touched, snap>>

\* complete_purchase: update_query for the line at i, then the next line or
\* self.cart.clear()
complete_purchase_update(s) ==
    LET t == tool[s]
        cart_item == cart[s][t.i]
        key == LineKey(cart_item)
        new_quantity == NewQuantity(Get(t.cur), cart_item.quantity)
    IN
    /\ t.pc = "update"
    /\ \E out \in StoreOutcomes :
        IF out = "error"
        THEN /\ tool' = [tool EXCEPT ![s] = Caught(t)]
             /\ tx' = [tx EXCEPT ![V(s)] = NoWrites]
             /\ cart' = cart
        ELSE /\ ~LockedByOther(V(s), key)
             /\ tx' = [tx EXCEPT ![V(s)] =
                    IF RowExists(key) THEN (key :> new_quantity) @@ @ ELSE @]
             /\ IF t.i < Len(cart[s])
                THEN /\ tool' = [tool EXCEPT ![s] =
                            [t EXCEPT !.pc = "select", !.i = t.i + 1, !.cur = None,
                                      !.total = Some(Get(@) + cart_item.total_price)]]
                     /\ cart' = cart
                ELSE /\ tool' = [tool EXCEPT ![s] =
                            [t EXCEPT !.pc = "commit", !.pending = "ok", !.cur = None,
                                      !.total = Some(Get(@) + cart_item.total_price)]]
                     /\ cart' = [cart EXCEPT ![s] = <<>>]
    /\ UNCHANGED <<apart, charged, stock_items, item_variants, next_id, http, budget,
                   expected, touched, snap>>

\* the quantities the lines 1..n of a cart take from each row, summed per row
RECURSIVE TakenFrom(_, _)
TakenFrom(lines, key) ==
    IF lines = <<>> THEN 0
    ELSE (IF LineKey(Head(lines)) = key THEN Head(lines).quantity ELSE 0)
         + TakenFrom(Tail(lines), key)

\* complete_purchase: leaving conn.transaction(), by the return of an
\* unavailable line or by the return of the receipt
complete_purchase_commit(s) ==
    LET t == tool[s]
        w == tx[V(s)]
        done == IF t.pending = "ok" THEN t.cart0 ELSE SubSeq(t.cart0, 1, t.i - 1)
    IN
    /\ t.pc = "commit"
    /\ tx' = [tx EXCEPT ![V(s)] = NoWrites]
    /\ \E out \in StoreOutcomes :
        IF out = "error"
        THEN /\ tool' = [tool EXCEPT ![s] = Caught(t)]
             /\ UNCHANGED <<stock_items, item_variants, expected, touched, snap, charged>>
        ELSE /\ stock_items' = CommitStock(w)
             /\ item_variants' = CommitVariants(w)
             /\ tool' = [tool EXCEPT ![s] =
                    IF t.pending = "ok" THEN Return(t, "ok", 0, t.total)
                    ELSE Return(t, "short", t.i, None)]
             /\ expected' = [k \in DOMAIN expected |-> expected[k] - TakenFrom(done, k)]
             /\ touched' = Touch({LineKey(done[n]) : n \in DOMAIN done}, "checkout")
             /\ charged' = [charged EXCEPT ![s] = Charge(@, Len(t.cart0), Len(done))]
             /\ snap' = IF DOMAIN w = {} THEN snap ELSE Disturb(V(s))
    /\ UNCHANGED <<apart, next_id, http, cart, budget>>

\* the columns the read-only tools select from stock_items LEFT JOIN item_variants
VariantRow(id, v) ==
    LET j == JoinRow(id, v) IN
    [item_name |-> j.item_name, variant |-> j.variant, quantity |-> j.quantity,
     unit |-> j.unit, price |-> j.price]

\* the rows of the join for the items of a name: one per variant row, one for
\* an item without variant rows
RowsOfItem(mapped_item) ==
    {VariantRow(id, None) : id \in {x \in IdsByName(mapped_item) : VariantsOf(x) = {}}}
    \cup
    {VariantRow(item_variants[v].stock_item_id, Some(v)) :
        v \in {x \in DOMAIN item_variants :
                item_variants[x].stock_item_id \in IdsByName(mapped_item)}}

\* InventoryAssistant.get_item_variants
get_item_variants(s, item_name) ==
    LET mapped_item == _map_item_name(item_name)
        rows == RowsOfItem(mapped_item)
        t == [Call(s, "get_item_variants") EXCEPT !.item_name = Some(item_name)]
    IN
    /\ CanCall(s)
    /\ budget' = budget - 1
    /\ \E out \in StoreOutcomes :
        tool' = [tool EXCEPT ![s] =
            IF out = "error" THEN Caught(t)
            ELSE IF rows = {} THEN Return(t, "item_not_found", 0, None)
            ELSE [Return(t, "variants", 0, None) EXCEPT !.rows = rows]]
    /\ snap' = Begin(V(s))
    /\ UNCHANGED <<apart, charged, stock_items, item_variants, next_id, tx, http, cart, expected, touched>>

\* InventoryAssistant.get_stock_info
get_stock_info(s, item_name, variant) ==
    LET mapped_item == _map_item_name(item_name)
        t == [Call(s, "get_stock_info") EXCEPT !.item_name = Some(item_name),
                  !.variant = Some(variant)]
    IN
    /\ CanCall(s)
    /\ budget' = budget - 1
    /\ \E out \in StoreOutcomes :
        IF out = "error"
        THEN tool' = [tool EXCEPT ![s] = Caught(t)]
        ELSE IF variant # <<>> /\ Strip(variant) # <<>>
        THEN LET found == FindRows(mapped_item, _map_variant_name(variant)) IN
             IF found = {}
             THEN tool' = [tool EXCEPT ![s] =
                     Return(t, IF IdsByName(mapped_item) # {} THEN "variant_not_found"
                               ELSE "item_not_found", 0, None)]
             ELSE \E row \in found :
                     tool' = [tool EXCEPT ![s] =
                         [Return(t, "stock", 0, None) EXCEPT
                             !.rows = {[item_name |-> row.item_name, variant |-> row.variant,
                                        quantity |-> row.quantity, unit |-> row.unit,
                                        price |-> row.price]}]]
        ELSE tool' = [tool EXCEPT ![s] =
                 IF RowsOfItem(mapped_item) = {} THEN Return(t, "item_not_found", 0, None)
                 ELSE [Return(t, "options", 0, None) EXCEPT !.rows = RowsOfItem(mapped_item)]]
    /\ snap' = Begin(V(s))
    /\ UNCHANGED <<apart, charged, stock_items, item_variants, next_id, tx, http, cart, expected, touched>>

\* stock_items.category_id JOIN categories: the category names of the items
\* that have one
category_name == (1 :> Drinks) @@ (2 :> Snacks)

\* InventoryAssistant.list_category_items
list_category_items(s, category) ==
    LET mapped_category == _map_category_name(category)
        ids == {id \in DOMAIN stock_items \cap DOMAIN category_name :
                    Lower(category_name[id]) = Lower(mapped_category)}
        rows == {[item_name |-> stock_items[id].item_name,
                  has_variants |-> VariantsOf(id) # {}] : id \in ids}
        t == [Call(s, "list_category_items") EXCEPT !.category = Some(category)]
    IN
    /\ CanCall(s)
    /\ budget' = budget - 1
    /\ \E out \in StoreOutcomes :
        tool' = [tool EXCEPT ![s] =
            IF out = "error" THEN Caught(t)
            ELSE IF rows = {} THEN Return(t, "no_items", 0, None)
            ELSE [Return(t, "items", 0, None) EXCEPT !.rows = rows]]
    /\ snap' = Begin(V(s))
    /\ UNCHANGED <<apart, charged, stock_items, item_variants, next_id, tx, http, cart, expected, touched>>

\* InventoryAssistant.purchase_item: add_to_cart, then show_cart when the line
\* was added; it has no handler of its own and returns what the two return
purchase_item(s, item_name, quantity, variant) ==
    LET mapped_item == _map_item_name(item_name)
        mapped_variant ==
            IF variant # <<>> /\ Strip(variant) # <<>>
            THEN _map_variant_name(variant) ELSE Default
        rows == FindRows(mapped_item, mapped_variant)
        t == [Call(s, "purchase_item") EXCEPT !.item_name = Some(item_name),
                  !.quantity = Some(quantity), !.variant = Some(variant)]
    IN
    /\ CanCall(s)
    /\ Len(cart[s]) < MaxCart
    /\ budget' = budget - 1
    /\ \E out \in StoreOutcomes :
        IF out = "error"
        THEN /\ tool' = [tool EXCEPT ![s] = Caught(t)]
             /\ cart' = cart
        ELSE IF rows = {}
        THEN /\ tool' = [tool EXCEPT ![s] =
                    Return(t, IF IdsByName(mapped_item) # {} THEN "variant_not_found"
                              ELSE "item_not_found", 0, None)]
             /\ cart' = cart
        ELSE \E item \in rows :
            IF Insufficient(item.quantity, quantity)
            THEN /\ tool' = [tool EXCEPT ![s] = Return(t, "insufficient", 0, None)]
                 /\ cart' = cart
            ELSE LET lines == Append(cart[s], CartItem(item, quantity)) IN
                 /\ cart' = [cart EXCEPT ![s] = lines]
                 /\ tool' = [tool EXCEPT ![s] =
                        Return(t, "added", Len(lines), Some(SumTotalPrice(lines)))]
    /\ snap' = Begin(V(s))
    /\ UNCHANGED <<apart, stock_items, item_variants, next_id, tx, http, expected, touched>>
    /\ charged' = [charged EXCEPT ![s] =
                      IF Len(cart'[s]) > Len(cart[s])
                      THEN Append(@, NotCharged(cart'[s][Len(cart'[s])])) ELSE @]

(* --------------------------- the system -------------------------------- *)

InitQty == 2             \* quantity of every row of the seeded catalogue
RegularPrice == 100      \* price of the seeded variant, in cents
LaysPrice == 50          \* price of the seeded item without variants, in cents

Seeded ==
    /\ stock_items =
           (1 :> [item_name |-> Coke, quantity |-> InitQty, unit |-> can, price |-> None])
        @@ (2 :> [item_name |-> Lays, quantity |-> InitQty, unit |-> pack,
                  price |-> Some(LaysPrice)])
    /\ item_variants =
           (1 :> [stock_item_id |-> 1, variant |-> Regular, quantity |-> InitQty,
                  unit |-> can, price |-> RegularPrice])
    /\ next_id = 3
    /\ tx = [p \in Procs |-> NoWrites]
    /\ http = [c \in Clients |-> Idle]
    /\ cart = [s \in Sessions |-> <<>>]
    /\ tool = [s \in Sessions |-> NoCall]
    /\ expected = (StockKey(1) :> InitQty) @@ (StockKey(2) :> InitQty)
                  @@ (VariantKey(1) :> InitQty)
    /\ touched = (StockKey(1) :> {}) @@ (StockKey(2) :> {}) @@ (VariantKey(1) :> {})
    /\ snap = [p \in Procs |-> None]
    /\ charged = [s \in Sessions |-> <<>>]

\* no mapping function under study
NoMapping == [kind |-> "none", name |-> <<>>, out |-> None]

MaxTime == 1             \* seconds the clock advances in one behaviour
MaxEvents == 3           \* calls on the logger in one behaviour

Times == 0..MaxTime

\* no call on the logger yet
NoEvent == [call |-> "none", source |-> "", message |-> "", lazily |-> FALSE,
            returned |-> FALSE, file |-> None, before |-> <<>>]

\* ChatLogger.__init__ in an empty log_dir
NewLogger ==
    /\ current_session = None
    /\ current_log_file = None
    /\ chat_logs = [f \in Times |-> <<>>]
    /\ now = 0
    /\ last_event = NoEvent

Unused == mapped = NoMapping /\ NewLogger

Init == Seeded /\ Unused /\ budget = MaxOps
InitCart == Seeded /\ Unused /\ budget = MaxCartOps

(* Inputs.  Each specification draws the arguments of its requests from   *)
(* its own sets: the whole system with few arguments; the HTTP handlers,  *)
(* one voice session, and the checkouts of one row, each alone with more. *)

Quantities == 1..MaxQty
ItemIds == 1..MaxItems
LaysId == {id \in DOMAIN stock_items : stock_items[id].item_name = Lays}

\* StockItemUpdate bodies: every subset of {item_name, quantity, unit}
UpdateBodies ==
    {<<n, q, u>> : n \in {None, Some(coke)}, q \in {None, Some(1)}, u \in {None, Some(box)}}

\* (item_name, variant) as the caller speaks them
CartTargets == {<<Lays, <<>>>>, <<cola, small>>, <<cola, big>>, <<tea, <<>>>>}
CartQuantities == {-1, 0} \cup Quantities

(* the HTTP handlers alone *)
HttpNext ==
    \E c \in Clients :
        \/ \E name \in {coke, Fanta}, q \in {0, 1} : add_stock_check(c, name, q, box)
        \/ add_stock_insert(c)
        \/ \E id \in ItemIds \ {1}, b \in UpdateBodies :
              update_stock_check(c, id, b[1], b[2], b[3])
        \/ update_stock_write(c)
        \/ \E id \in ItemIds \ {1} : add_quantity_to_stock(c, id, 1)
        \/ \E id \in ItemIds \ {1}, q \in Quantities : purchase_item_select(c, id, q)
        \/ purchase_item_update(c)
        \/ purchase_item_commit(c)
        \/ \E id \in ItemIds \ {1} : delete_stock(c, id)

(* one voice session, and purchases over HTTP beside it *)
CartNext ==
    \/ \E s \in {1} :
        \/ \E t \in CartTargets, q \in CartQuantities : add_to_cart(s, t[1], q, t[2])
        \/ show_cart(s)
        \/ clear_cart(s)
        \/ complete_purchase_begin(s)
        \/ complete_purchase_select(s)
        \/ complete_purchase_update(s)
        \/ complete_purchase_commit(s)
    \/ \E c \in {1} :
        \/ \E id \in LaysId : purchase_item_select(c, id, 1)
        \/ purchase_item_update(c)
        \/ purchase_item_commit(c)

(* checkouts of one row from every session, purchases and restocking of *)
(* the same row over HTTP beside them                                   *)
CheckoutNext ==
    \/ \E s \in Sessions :
        \/ \E q \in Quantities : add_to_cart(s, Lays, q, <<>>)
        \/ complete_purchase_begin(s)
        \/ complete_purchase_select(s)
        \/ complete_purchase_update(s)
        \/ complete_purchase_commit(s)
    \/ \E c \in Clients :
        \/ \E id \in LaysId : add_quantity_to_stock(c, id, 1)
        \/ \E id \in LaysId : purchase_item_select(c, id, 1)
        \/ purchase_item_update(c)
        \/ purchase_item_commit(c)

(* every tool of one voice session *)
ToolsNext ==
    \E s \in {1} :
        \/ \E n \in {cola, Lays, tea} : get_item_variants(s, n)
        \/ \E t \in CartTargets : get_stock_info(s, t[1], t[2])
        \/ \E c \in {drinks, Snacks, tea} : list_category_items(s, c)
        \/ \E q \in {1, MaxQty} : add_to_cart(s, Lays, q, <<>>)
        \/ \E q \in {1, MaxQty} : purchase_item(s, cola, q, small)
        \/ show_cart(s)
        \/ clear_cart(s)
        \/ complete_purchase_begin(s)
        \/ complete_purchase_select(s)
        \/ complete_purchase_update(s)
        \/ complete_purchase_commit(s)

(* the whole system *)
Next ==
    \/ \E c \in Clients :
        \/ \E q \in {0, 1} : add_stock_check(c, Fanta, q, box)
        \/ add_stock_insert(c)
        \/ \E id \in LaysId : update_stock_check(c, id, None, Some(1), None)
        \/ update_stock_write(c)
        \/ \E id \in LaysId : add_quantity_to_stock(c, id, 1)
        \/ \E id \in LaysId, q \in Quantities : purchase_item_select(c, id, q)
        \/ purchase_item_update(c)
        \/ purchase_item_commit(c)
        \/ \E id \in LaysId : delete_stock(c, id)
    \/ \E s \in Sessions :
        \/ \E t \in {<<Lays, <<>>>>, <<cola, small>>}, q \in Quantities :
              add_to_cart(s, t[1], q, t[2])
        \/ show_cart(s)
        \/ clear_cart(s)
        \/ complete_purchase_begin(s)
        \/ complete_purchase_select(s)
        \/ complete_purchase_update(s)
        \/ complete_purchase_commit(s)

Spec == Init /\ [][Next]_vars
SpecStore == Init /\ [][HttpNext]_vars
SpecCart == InitCart /\ [][CartNext]_vars
SpecCheckout == InitCart /\ [][CheckoutNext]_vars
SpecTools == InitCart /\ [][ToolsNext]_vars

(* one session alone: lines put in the cart, and checkouts tried again *)
MaxRetryOps == 4         \* tool calls of the session in one behaviour

InitRetry == Seeded /\ Unused /\ budget = MaxRetryOps

RetryNext ==
    \E s \in {1} :
        \/ \E q \in 1..InitQty : add_to_cart(s, Lays, q, <<>>)
        \/ complete_purchase_begin(s)
        \/ complete_purchase_select(s)
        \/ complete_purchase_update(s)
        \/ complete_purchase_commit(s)

SpecRetry == InitRetry /\ [][RetryNext]_vars

(* the connections: the health check, purchases and checkouts *)
ConnNext ==
    \/ \E c \in Clients :
        \/ health_check(c)
        \/ \E id \in ItemIds \ {1}, q \in {1, MaxQty} : purchase_item_select(c, id, q)
        \/ purchase_item_update(c)
        \/ purchase_item_commit(c)
    \/ \E s \in {1} :
        \/ \E t \in {<<Lays, <<>>>>, <<tea, <<>>>>}, q \in {1, MaxQty} :
              add_to_cart(s, t[1], q, t[2])
        \/ complete_purchase_begin(s)
        \/ complete_purchase_select(s)
        \/ complete_purchase_update(s)
        \/ complete_purchase_commit(s)

SpecConn == InitCart /\ [][ConnNext]_vars

(* The mapping functions alone: one call, its argument drawn from the    *)
(* keys and the canonical names of the three tables and from names that  *)
(* are in no table, as they are and with white space around them.        *)

MaxPad == 1              \* white-space characters on each side of an argument

CocaCola == <<"C","o","c","a","-","C","o","l","a">>
COLA == <<"C","O","L","A">>
unknown_thing == <<"u","n","k","n","o","w","n","-","t","h","i","n","g">>
Unknown_Thing == <<"U","n","k","n","o","w","n"," ","T","h","i","n","g">>

Values(d) == {d[k] : k \in DOMAIN d}

Pads == UNION {[1..n -> {" ", "\t"}] : n \in 0..MaxPad}

Words ==
    DOMAIN ITEM_MAPPINGS \cup DOMAIN VARIANT_MAPPINGS \cup DOMAIN CATEGORY_MAPPINGS
    \cup Values(ITEM_MAPPINGS) \cup Values(VARIANT_MAPPINGS) \cup Values(CATEGORY_MAPPINGS)
    \cup {CocaCola, COLA, unknown_thing, Unknown_Thing, tea, Fanta, <<>>}

Arguments == {l \o w \o r : l \in Pads, w \in Words, r \in Pads}

InitMap ==
    /\ Seeded
    /\ NewLogger
    /\ budget = 0
    /\ \E kind \in {"item", "variant", "category"}, name \in Arguments :
           mapped = [kind |-> kind, name |-> name, out |-> None]

MapItem ==
    /\ mapped.kind = "item" /\ IsNone(mapped.out)
    /\ mapped' = [mapped EXCEPT !.out = Some(_map_item_name(mapped.name))]
    /\ UNCHANGED <<stock_items, item_variants, next_id, tx, http, cart, tool, budget,
                   expected, touched, snap, charged>>
    /\ UNCHANGED <<current_session, current_log_file, chat_logs, now, last_event>>

MapVariant ==
    /\ mapped.kind = "variant" /\ IsNone(mapped.out)
    /\ mapped' = [mapped EXCEPT !.out = Some(_map_variant_name(mapped.name))]
    /\ UNCHANGED <<stock_items, item_variants, next_id, tx, http, cart, tool, budget,
                   expected, touched, snap, charged>>
    /\ UNCHANGED <<current_session, current_log_file, chat_logs, now, last_event>>

MapCategory ==
    /\ mapped.kind = "category" /\ IsNone(mapped.out)
    /\ mapped' = [mapped EXCEPT !.out = Some(_map_category_name(mapped.name))]
    /\ UNCHANGED <<stock_items, item_variants, next_id, tx, http, cart, tool, budget,
                   expected, touched, snap, charged>>
    /\ UNCHANGED <<current_session, current_log_file, chat_logs, now, last_event>>

MapNext ==
    \/ MapItem
    \/ MapVariant
    \/ MapCategory

SpecMap == InitMap /\ [][MapNext]_vars

(* chat_logger.py: one ChatLogger, its files and the clock.  A line of a *)
(* file is the event written; the file of a session is named by the     *)
(* second the session started in.  Every write can fail (OSError).       *)

\* datetime.now().strftime("%Y%m%d_%H%M%S") and os.path.join(log_dir, ...)
SessionFile(timestamp) == timestamp

\* the dict log_event builds
Event(timestamp, source, message) ==
    [timestamp |-> timestamp, source |-> source, message |-> message]

SessionStarted == Event(now, "system", "Chat session started")

\* mutant: the file opened for writing, not for appending
WriteLine_Truncating(lines, event) == <<event>>

\* open(file, 'a') and f.write(json.dumps(event) + "\n")
WriteLine(lines, event) == Append(lines, event)

Store0 == <<stock_items, item_variants, next_id, tx, http, cart, tool,
            expected, touched, snap, charged, mapped>>

\* ChatLogger.start_session
start_session ==
    /\ budget > 0
    /\ budget' = budget - 1
    /\ current_session' = Some(now)
    /\ current_log_file' = Some(SessionFile(now))
    /\ \E out \in StoreOutcomes :
        /\ chat_logs' = IF out = "error" THEN chat_logs
                        ELSE [chat_logs EXCEPT ![SessionFile(now)] =
                                 WriteLine(@, SessionStarted)]
        /\ last_event' = [call |-> "start_session", source |-> "", message |-> "",
                          lazily |-> FALSE, returned |-> out = "ok",
                          file |-> Some(SessionFile(now)),
                          before |-> chat_logs[SessionFile(now)]]
    /\ UNCHANGED <<Store0, now>>

\* ChatLogger.log_event, the start_session of its first lines included
log_event(source, message) ==
    LET lazily == IsNone(current_session)
        file == IF lazily THEN SessionFile(now) ELSE Get(current_log_file)
        event == Event(now, source, message)
    IN
    /\ budget > 0
    /\ budget' = budget - 1
    /\ current_session' = IF lazily THEN Some(now) ELSE current_session
    /\ current_log_file' = Some(file)
    /\ \E started \in StoreOutcomes, out \in StoreOutcomes :
        LET opened == IF lazily /\ started = "ok"
                      THEN WriteLine(chat_logs[file], SessionStarted)
                      ELSE chat_logs[file]
            raised == (lazily /\ started = "error") \/ out = "error"
        IN
        /\ chat_logs' = [chat_logs EXCEPT ![file] =
                            IF raised THEN opened ELSE WriteLine(opened, event)]
        /\ last_event' = [call |-> "log_event", source |-> source, message |-> message,
                          lazily |-> lazily, returned |-> ~raised,
                          file |-> Some(file), before |-> chat_logs[file]]
    /\ UNCHANGED <<Store0, now>>

\* a second passes
Tick ==
    /\ now < MaxTime
    /\ now' = now + 1
    /\ UNCHANGED <<Store0, budget, current_session, current_log_file, chat_logs,
                   last_event>>

InitLog == Seeded /\ mapped = NoMapping /\ NewLogger /\ budget = MaxEvents

LogNext ==
    \/ \E source \in {"user", "assistant"}, message \in {"hello", "bye"} :
          log_event(source, message)
    \/ start_session
    \/ Tick

SpecLog == InitLog /\ [][LogNext]_vars

(* ------------------------------ claims --------------------------------- *)

StoreNow == [stock_items |-> stock_items, item_variants |-> item_variants]

\* the quantity of the row key in the tables t, None when t has no such row
QtyIn(t, key) ==
    IF key[1] = "stock_items"
    THEN (IF key[2] \in DOMAIN t.stock_items
          THEN Some(t.stock_items[key[2]].quantity) ELSE None)
    ELSE (IF key[2] \in DOMAIN t.item_variants
          THEN Some(t.item_variants[key[2]].quantity) ELSE None)

QtyNow(key) == QtyIn(StoreNow, key)

RowKeys == {StockKey(id) : id \in DOMAIN stock_items}
           \cup {VariantKey(v) : v \in DOMAIN item_variants}

\* no other request or call has committed a write since p's operation began
Undisturbed(p) == ~IsNone(snap[p])
Pre(p) == Get(snap[p])

HttpDone(c, op) == http[c].pc = "done" /\ http[c].op = op
ToolDone(s, call) == tool[s].pc = "done" /\ tool[s].call = call

C2_PurchasesAtomic ==
    \A id \in DOMAIN stock_items :
        touched[StockKey(id)] = {"purchase"} =>
            /\ stock_items[id].quantity = expected[StockKey(id)]
            /\ expected[StockKey(id)] >= 0

\* C3: a purchase that ran with no concurrent mutation and was answered by
\* the store: 404 and no row changed when the id was absent; 400 and the
\* quantity unchanged when it asked for more than the prior quantity;
\* otherwise 200, remaining_quantity = prior - q, and get_by_id shows prior - q.
C3_PurchaseSequential ==
    \A c \in Clients :
        (HttpDone(c, "purchase_item") /\ Undisturbed(H(c)) /\ http[c].status # 500) =>
            LET id == http[c].item_id
                q == Get(http[c].quantity)
                pre == Pre(H(c)).stock_items
            IN
            IF id \notin DOMAIN pre
            THEN http[c].status = 404 /\ StoreNow = Pre(H(c))
            ELSE IF q > pre[id].quantity
            THEN http[c].status = 400 /\ StoreNow = Pre(H(c))
            ELSE /\ http[c].status = 200
                 /\ http[c].remaining = Some(pre[id].quantity - q)
                 /\ get_stock_by_id(id).status = 200
                 /\ Get(get_stock_by_id(id).row).quantity = pre[id].quantity - q
                 /\ \A o \in DOMAIN pre \ {id} : o \in DOMAIN stock_items
                                                  /\ stock_items[o] = pre[o]

\* a purchase of part of the stock, after an earlier request changed the row
C3_Witness ==
    \E c \in Clients :
        /\ HttpDone(c, "purchase_item") /\ Undisturbed(H(c)) /\ http[c].status = 200
        /\ Get(http[c].remaining) > 0
        /\ touched[StockKey(http[c].item_id)] = {"add_quantity", "purchase"}

\* the first line of a cart that the tables t cannot serve, the lines before
\* it having been taken; 0 when every line can be served
FirstShort(lines, t) ==
    LET short(i) ==
            LET k == LineKey(lines[i])
                a == QtyIn(t, k)
            IN IsNone(a) \/ Get(a) - TakenFrom(SubSeq(lines, 1, i - 1), k) < lines[i].quantity
    IN IF \E i \in DOMAIN lines : short(i)
       THEN CHOOSE i \in DOMAIN lines : short(i) /\ \A j \in 1..(i - 1) : ~short(j)
       ELSE 0

\* every row the cart names holds what it held before, less what the lines take
AllTaken(lines, t) ==
    \A n \in DOMAIN lines :
        LET k == LineKey(lines[n]) IN
        QtyNow(k) = Some(Get(QtyIn(t, k)) - TakenFrom(lines, k))

\* C4 (as claimed): a complete_purchase that did not succeed leaves every
\* stock and variant quantity at its value before the call.
C4_CheckoutAllOrNothing ==
    \A s \in Sessions :
        (/\ ToolDone(s, "complete_purchase")
         /\ tool[s].result \in {"short", "error"}
         /\ Undisturbed(V(s))) => StoreNow = Pre(V(s))

\* C5 (as claimed, whatever message the call returns): a complete_purchase
\* on a non-empty cart ends either with the cart empty and every line's row
\* decremented by the line's quantity, or with the cart holding all its
\* lines, a reported line being the first one the store cannot serve.
C5_TwoOutcomes ==
    \A s \in Sessions :
        (ToolDone(s, "complete_purchase") /\ tool[s].cart0 # <<>>) =>
            \/ /\ cart[s] = <<>>
               /\ Undisturbed(V(s)) => AllTaken(tool[s].cart0, Pre(V(s)))
            \/ /\ cart[s] = tool[s].cart0
               /\ tool[s].result # "ok"
               /\ (tool[s].result = "short" /\ Undisturbed(V(s)))
                    => tool[s].line = FirstShort(tool[s].cart0, Pre(V(s)))

\* C6 (as claimed): for a row written by checkouts, purchases and
\* add_quantity only, the quantity is the initial quantity plus what was added
\* minus what the committed lines and successful purchases took.
C6_CheckoutNotInterleaved ==
    \A k \in RowKeys :
        (touched[k] \subseteq {"checkout", "purchase", "add_quantity"}
            /\ "checkout" \in touched[k]) => QtyNow(k) = Some(expected[k])

\* quantity x price-per-unit over the lines of a cart
RECURSIVE SumQuantityTimesPrice(_)
SumQuantityTimesPrice(lines) ==
    IF lines = <<>> THEN 0
    ELSE Head(lines).quantity * Head(lines).price_per_unit
         + SumQuantityTimesPrice(Tail(lines))

\* C7: the total add_to_cart and show_cart report is the sum over the cart's
\* lines of quantity x price-per-unit, and no step changes a line once it is
\* in the cart (a step keeps the cart's lines or empties the cart).
C7_CartTotal ==
    /\ [](\A s \in Sessions :
            /\ \A n \in DOMAIN cart[s] :
                 cart[s][n].total_price = cart[s][n].quantity * cart[s][n].price_per_unit
            /\ (ToolDone(s, "add_to_cart") /\ tool[s].result = "added")
                 => tool[s].total = Some(SumQuantityTimesPrice(cart[s]))
            /\ (ToolDone(s, "show_cart") /\ tool[s].result = "cart")
                 => tool[s].total = Some(SumQuantityTimesPrice(cart[s])))
    /\ [][\A s \in Sessions :
            \/ cart'[s] = <<>>
            \/ /\ Len(cart'[s]) >= Len(cart[s])
               /\ SubSeq(cart'[s], 1, Len(cart[s])) = cart[s]]_vars

\* a total reported for a cart of two lines, a priced one among them, when
\* the row of one line holds less than the line asks
C7_Witness ==
    \E s \in Sessions :
        /\ \/ ToolDone(s, "show_cart") /\ tool[s].result = "cart"
           \/ ToolDone(s, "add_to_cart") /\ tool[s].result = "added"
        /\ Get(tool[s].total) > 0 /\ Len(cart[s]) = 2
        /\ \E n \in DOMAIN cart[s] :
             /\ cart[s][n].quantity > 0
             /\ ~IsNone(QtyNow(LineKey(cart[s][n])))
             /\ Get(QtyNow(LineKey(cart[s][n]))) < cart[s][n].quantity

\* C8 (as claimed): no two stock items have names equal ignoring case.
C8_NamesUnique ==
    \A a, b \in DOMAIN stock_items :
        a # b => Lower(stock_items[a].item_name) # Lower(stock_items[b].item_name)

\* the last line of a cart
Last(lines) == lines[Len(lines)]

\* the rows find_query resolves for the arguments of the call recorded in t
Resolved(t) ==
    FindRows(_map_item_name(Get(t.item_name)),
             IF Strip(Get(t.variant)) # <<>> THEN _map_variant_name(Get(t.variant))
             ELSE Default)

\* C9: a step of add_to_cart changes no stock or variant quantity; it appends
\* a line only for a row whose live quantity is at least the requested
\* quantity; it leaves the cart alone and reports the failure when nothing
\* resolves or no resolved row holds the requested quantity.
C9_AddToCartChecked ==
    [][\A s \in Sessions :
        (tool'[s] # tool[s] /\ tool'[s].call = "add_to_cart") =>
            LET quantity == Get(tool'[s].quantity)
                live == Resolved(tool'[s])
                fits == {r \in live : r.quantity >= quantity}
            IN
            /\ stock_items' = stock_items /\ item_variants' = item_variants
            /\ cart'[s] # cart[s] =>
                 /\ tool'[s].result = "added"
                 /\ Len(cart'[s]) = Len(cart[s]) + 1
                 /\ SubSeq(cart'[s], 1, Len(cart[s])) = cart[s]
                 /\ Last(cart'[s]).quantity = quantity
                 /\ ~IsNone(QtyNow(LineKey(Last(cart'[s]))))
                 /\ quantity <= Get(QtyNow(LineKey(Last(cart'[s]))))
            /\ fits = {} =>
                 /\ cart'[s] = cart[s]
                 /\ tool'[s].result \in
                      {"insufficient", "variant_not_found", "item_not_found", "error"}
            /\ tool'[s].result = "added" => cart'[s] # cart[s]
            /\ tool'[s].result = "insufficient" => live # {}
            /\ tool'[s].result \in {"variant_not_found", "item_not_found"} => live = {}]_vars

\* a line for the whole live quantity of its row
C9_Witness ==
    \E s \in Sessions :
        /\ ToolDone(s, "add_to_cart") /\ tool[s].result = "added"
        /\ Last(cart[s]).quantity > 0
        /\ QtyNow(LineKey(Last(cart[s]))) = Some(Last(cart[s]).quantity)

\* the tables after the step
StoreAfter == [stock_items |-> stock_items', item_variants |-> item_variants']

\* C10 (as claimed): every cart line has quantity > 0, an add_to_cart with a
\* quantity <= 0 adds nothing, and no complete_purchase step raises a quantity.
C10_PositiveLines ==
    /\ [](\A s \in Sessions :
            /\ \A n \in DOMAIN cart[s] : cart[s][n].quantity > 0
            /\ (ToolDone(s, "add_to_cart") /\ Get(tool[s].quantity) <= 0)
                 => tool[s].result # "added")
    /\ [][\A s \in Sessions :
            (tool[s].call = "complete_purchase" /\ tool[s].pc = "commit"
                /\ tool'[s].pc = "done") =>
                \A k \in RowKeys :
                    ~IsNone(QtyIn(StoreAfter, k)) => Get(QtyIn(StoreAfter, k)) <= Get(QtyNow(k))]_vars

\* C11: a step of clear_cart, from any cart, leaves the session's cart empty,
\* reports that the cart was cleared and changes no stock or variant
\* quantity; the cart is empty whenever clear_cart is the last call returned.
C11_ClearCartEmpties ==
    /\ [](\A s \in Sessions : ToolDone(s, "clear_cart") => cart[s] = <<>>)
    /\ [][\A s \in Sessions :
            (tool'[s] # tool[s] /\ tool'[s].call = "clear_cart") =>
                /\ cart'[s] = <<>>
                /\ tool'[s].pc = "done" /\ tool'[s].result = "cleared"
                /\ StoreAfter = StoreNow]_vars

\* clear_cart returned on a cart that held two lines
C11_Witness ==
    \E s \in Sessions : ToolDone(s, "clear_cart") /\ Len(tool[s].cart0) = 2

\* C12: a complete_purchase called on an empty cart returns at once with the
\* "cart is empty" result: the call is over in the same step, no transaction
\* is open, no stock or variant quantity has changed, the cart is still empty.
C12_EmptyCartRefused ==
    [][\A s \in Sessions :
        (/\ tool[s].pc \in {"idle", "done"}
         /\ tool'[s] # tool[s]
         /\ tool'[s].call = "complete_purchase"
         /\ cart[s] = <<>>) =>
            /\ tool'[s].pc = "done" /\ tool'[s].result = "empty"
            /\ tx'[V(s)] = NoWrites
            /\ cart'[s] = <<>>
            /\ StoreAfter = StoreNow]_vars

\* the empty-cart result, on a cart emptied by clear_cart or never filled
C12_Witness ==
    \E s \in Sessions :
        /\ ToolDone(s, "complete_purchase") /\ tool[s].result = "empty"
        /\ tool[s].cart0 = <<>> /\ cart[s] = <<>>

\* C13 (as claimed): for a row written by add_quantity and purchases only,
\* add_quantity among them, the quantity is the initial quantity plus every
\* acknowledged delta minus the quantities of the successful purchases; an
\* add_quantity answered 404 has changed no row.
C13_AddQuantityAtomic ==
    /\ \A id \in DOMAIN stock_items :
          (touched[StockKey(id)] \subseteq {"add_quantity", "purchase"}
              /\ "add_quantity" \in touched[StockKey(id)]) =>
                  stock_items[id].quantity = expected[StockKey(id)]
    /\ \A c \in Clients :
          (HttpDone(c, "add_quantity_to_stock") /\ http[c].status = 404
              /\ Undisturbed(H(c))) => StoreNow = Pre(H(c))

\* C14: an update that ran with no concurrent mutation and was answered by
\* the store: 404 and no row changed when the id was absent, whatever the
\* body; 400 and no row changed when the id existed and the body supplied no
\* field; otherwise 200, the row holds the supplied fields and its former
\* values for the others, every other row is as it was, and the response is
\* the row's new state.
C14_UpdateFrame ==
    \A c \in Clients :
        (HttpDone(c, "update_stock") /\ Undisturbed(H(c)) /\ http[c].status # 500) =>
            LET r == http[c]
                id == r.item_id
                pre == Pre(H(c)).stock_items
            IN
            IF id \notin DOMAIN pre
            THEN r.status = 404 /\ StoreNow = Pre(H(c))
            ELSE IF IsNone(r.item_name) /\ IsNone(r.quantity) /\ IsNone(r.unit)
            THEN r.status = 400 /\ StoreNow = Pre(H(c))
            ELSE /\ r.status = 200
                 /\ DOMAIN stock_items = DOMAIN pre
                 /\ \A o \in DOMAIN pre \ {id} : stock_items[o] = pre[o]
                 /\ item_variants = Pre(H(c)).item_variants
                 /\ stock_items[id].item_name =
                        (IF IsNone(r.item_name) THEN pre[id].item_name ELSE Get(r.item_name))
                 /\ stock_items[id].quantity =
                        (IF IsNone(r.quantity) THEN pre[id].quantity ELSE Get(r.quantity))
                 /\ stock_items[id].unit =
                        (IF IsNone(r.unit) THEN pre[id].unit ELSE Get(r.unit))
                 /\ stock_items[id].price = pre[id].price
                 /\ r.row = Some(StockItem(id, stock_items[id]))

\* an update of the name alone, on a row whose quantity and unit stay
C14_Witness ==
    \E c \in Clients :
        /\ HttpDone(c, "update_stock") /\ Undisturbed(H(c)) /\ http[c].status = 200
        /\ ~IsNone(http[c].item_name) /\ IsNone(http[c].quantity) /\ IsNone(http[c].unit)
        /\ stock_items[http[c].item_id].quantity > 0

\* what a tool returns to its caller: the kinds of string the tools produce
ToolResults ==
    {"added", "insufficient", "variant_not_found", "item_not_found", "cart", "empty",
     "cleared", "ok", "short", "variants", "stock", "options", "items", "no_items",
     "error"}

\* C15: no tool call ever ends by raising: a call is in progress or has
\* returned one of the tools' strings, a store failure included, and a
\* returned call leaves the session ready for the next call with no
\* transaction open.
C15_ToolsNeverRaise ==
    \A s \in Sessions :
        /\ tool[s].pc \in {"idle", "select", "update", "commit", "done"}
        /\ tool[s].pc = "done" =>
              /\ tool[s].result \in ToolResults
              /\ tx[V(s)] = NoWrites
              /\ budget > 0 => CanCall(s)

\* a store failure in purchase_item, which has no handler of its own, with a
\* call still to come
C15_Witness ==
    \E s \in Sessions :
        /\ ToolDone(s, "purchase_item") /\ tool[s].result = "error"
        /\ budget > 0 /\ CanCall(s)

\* the table of a kind of name
TableOf(kind) ==
    CASE kind = "item" -> ITEM_MAPPINGS
      [] kind = "variant" -> VARIANT_MAPPINGS
      [] kind = "category" -> CATEGORY_MAPPINGS

\* C16: for each kind of name and every argument, the mapping function
\* returns the table's canonical value when the argument, trimmed and
\* lower-cased, is a key of the kind's table, and otherwise the argument
\* itself, neither trimmed nor lower-cased; "Coca-Cola" gives "Coke" and
\* "unknown-thing" gives "unknown-thing"
C16_Normalize ==
    (mapped.kind # "none" /\ ~IsNone(mapped.out)) =>
        LET table == TableOf(mapped.kind)
            key == Lower(Strip(mapped.name))
        IN /\ key \in DOMAIN table => Get(mapped.out) = table[key]
           /\ key \notin DOMAIN table => Get(mapped.out) = mapped.name
           /\ (mapped.kind = "item" /\ mapped.name = CocaCola) => Get(mapped.out) = Coke
           /\ (mapped.kind = "item" /\ mapped.name = unknown_thing)
                 => Get(mapped.out) = unknown_thing

\* a name in no table, with capitals and white space around it, came back as given
C16_Witness ==
    /\ mapped.kind = "item"
    /\ mapped.name = <<" ">> \o Unknown_Thing \o <<"\t">>
    /\ mapped.out = Some(mapped.name)
    /\ Strip(Lower(mapped.name)) # mapped.name

\* the rows the claim describes for the items named name in the tables t
ClaimedRows(t, name) ==
    LET ids == {id \in DOMAIN t.stock_items :
                   Lower(Strip(t.stock_items[id].item_name)) = Lower(Strip(name))}
        of(id) == {v \in DOMAIN t.item_variants : t.item_variants[v].stock_item_id = id}
    IN
    {[item_name |-> t.stock_items[id].item_name, variant |-> Default,
      quantity |-> t.stock_items[id].quantity, unit |-> t.stock_items[id].unit,
      price |-> IF IsNone(t.stock_items[id].price) THEN 0
                ELSE Get(t.stock_items[id].price)] :
        id \in {x \in ids : of(x) = {}}}
    \cup
    {[item_name |-> t.stock_items[t.item_variants[v].stock_item_id].item_name,
      variant |-> t.item_variants[v].variant, quantity |-> t.item_variants[v].quantity,
      unit |-> t.item_variants[v].unit, price |-> t.item_variants[v].price] :
        v \in {x \in DOMAIN t.item_variants : t.item_variants[x].stock_item_id \in ids}}

\* C17: get_item_variants on an item without variant rows yields one row
\* labelled "Default" with the stock item's own quantity, unit and price,
\* and on an item with variant rows one row per variant with the variant's
\* quantity, unit and price
C17_VariantRows ==
    \A s \in Sessions :
        (/\ ToolDone(s, "get_item_variants")
         /\ tool[s].result = "variants"
         /\ Undisturbed(V(s)))
        => tool[s].rows = ClaimedRows(Pre(V(s)), _map_item_name(Get(tool[s].item_name)))

\* the part of C17 that is about items with variant rows, reached
C17_VariantItemShown ==
    \E s \in Sessions :
        /\ ToolDone(s, "get_item_variants")
        /\ tool[s].result = "variants"
        /\ \E row \in tool[s].rows : row.variant = Regular /\ row.price = RegularPrice

\* C18 as stated: each log_event call, the first one on a logger without a
\* session included, appends exactly one record to the session's log and
\* leaves the records already there as an unchanged prefix
C18_OneRecordPerCall ==
    (last_event.call = "log_event" /\ last_event.returned) =>
        LET log == chat_logs[Get(current_log_file)] IN
        /\ Len(log) = Len(last_event.before) + 1
        /\ SubSeq(log, 1, Len(last_event.before)) = last_event.before

\* C18 amended: each log_event call that returns leaves the call's record
\* as the last one of the session's log and the records already there as
\* an unchanged prefix; it appends that one record when a session is
\* active, and two when it starts the session: the "system" record
\* "Chat session started" and then the call's record
C18_RecordAppended ==
    (last_event.call = "log_event" /\ last_event.returned) =>
        LET log == chat_logs[Get(current_log_file)]
            before == last_event.before
            n == Len(before)
        IN
        /\ current_log_file = last_event.file
        /\ Len(log) = n + (IF last_event.lazily THEN 2 ELSE 1)
        /\ SubSeq(log, 1, n) = before
        /\ log[Len(log)].source = last_event.source
        /\ log[Len(log)].message = last_event.message
        /\ last_event.lazily =>
              /\ log[n + 1].source = "system"
              /\ log[n + 1].message = "Chat session started"

\* a first call on a logger without a session returned, and the log that
\* was empty holds the session's opening record and the call's record
C18_Witness ==
    /\ last_event.call = "log_event" /\ last_event.returned
    /\ last_event.lazily
    /\ last_event.before = <<>>
    /\ Len(chat_logs[Get(current_log_file)]) = 2
    /\ chat_logs[Get(current_log_file)][2].source = "user"

\* C19: over any sequence of complete_purchase calls on a session's cart,
\* failed attempts and retries included, the units taken from the store
\* for one cart line never exceed the line's quantity: a line is charged
\* against stock at most once
C19_ChargedOnce ==
    \A s \in Sessions : \A n \in DOMAIN charged[s] :
        charged[s][n].taken <= charged[s][n].quantity

\* C20: every store connection opened by an HTTP handler or a voice tool
\* is closed by the time the request returns, on the success path and on
\* every error path: no completed request has its connection still open
C20_ConnectionsClosed ==
    /\ \A c \in Clients : http[c].pc \in {"idle", "done"} => ~http[c].conn
    /\ \A s \in Sessions : tool[s].pc \in {"idle", "done"} => ~tool[s].conn

====
